---- MODULE Spec2Model ----
(***************************************************************************)
(* Model of avocado/plugins/runners/avocado_instrumented.py:               *)
(* AvocadoInstrumentedTestRunner.run (the parent-side generator that       *)
(* supervises one worker process) and _run_avocado (the body of the worker *)
(* process), together with the SimpleQueue between them, the caller that   *)
(* advances the generator and the monotonic clock.                         *)
(*                                                                         *)
(* A generator is modelled statement by statement: `pc` is the statement   *)
(* it executes next, `suspended` says that it sits at a yield (or was not  *)
(* started yet) and waits for the caller's next(), `yielded` is the value  *)
(* the pending yield handed to the caller.  Python's None is the empty     *)
(* sequence and a present value x is <<x>>.                                *)
(***************************************************************************)
EXTENDS Integers, Sequences, FiniteSets, TLC

\* ------------------------------------------------------------ bounds
\* horizon of the monotonic clock, in units of RUNNER_RUN_CHECK_INTERVAL
MaxTime == 5
\* reading of the monotonic clock when the runner object is used
StartTime == 1
\* log records one worker may emit through the queue
MaxLog == 1
\* (path, env) entries of a serialized variant
MaxNodes == 2
\* largest timeout a test unit reports in its early state
MaxTimeout == 2
\* extra time a sleep of CHECK_INTERVAL may take (scheduling, a slow caller)
MaxJitter == 1
\* queue capacity assumed for a worker that logs for ever (LiveSpec only)
MaxQueue == 1

\* ------------------------------------------------------------ constants
\* avocado.core.nrunner.runner.RUNNER_RUN_CHECK_INTERVAL (time unit of the model)
CHECK_INTERVAL == 1
\* avocado.core.nrunner.runner.RUNNER_RUN_STATUS_INTERVAL
STATUS_INTERVAL == 2

\* float("inf"): larger than every elapsed time the clock can show
Inf == MaxTime + MaxTimeout + 1

None == <<>>
Some(x) == <<x>>
IsNone(x) == x = <<>>
Val(x) == x[1]

\* the generators a runner object may have created
Runs == {1, 2}

VARIABLES
    clock,          \* time.monotonic()
    self_runnable,  \* the runner object's attribute self.runnable
    runnable,       \* runnable[r]: the argument of the r-th call of run()
    gen,            \* gen[r]: the locals and position of the r-th generator
    chan,           \* chan[c]: the contents of SimpleQueue c
    proc,           \* proc[r]: state of the process started by generator r
    wk,             \* wk[r]: position and locals of that process's _run_avocado
    out,            \* out[r]: what the caller of generator r has recorded
    budget,         \* budget[r]: log records the worker of r may still emit
    world           \* what the runs meet: the uris of the runnables, the values of
                    \* "COVERAGE_RUN" in os.environ, and the timeouts, final
                    \* statuses and whiteboards of the test units

vars == <<clock, self_runnable, runnable, gen, chan, proc, wk, out, budget, world>>

\* ------------------------------------------------------------ messages
\* a message is a mapping; a key it lacks reads "None" (dict.get(key));
\* `mapping` is FALSE for a value on the queue that is no mapping at all.
\* `run`, `by`, `at` and `seq` are not on the wire: they record which call of
\* run() the message belongs to, who created it (the generator or the
\* worker), for a heartbeat the reading `now` of the poll that yielded it,
\* and for a message of the worker its place among the worker's puts
Msg(status, type) ==
    [status |-> status, type |-> type, result |-> "None", fail_reason |-> "None",
     fail_class |-> "None", class_name |-> "None", traceback |-> "None",
     timeout |-> None, log |-> "None", id |-> 0, mapping |-> TRUE,
     run |-> 0, by |-> "none", at |-> 0, seq |-> 0]

StartedMessage == Msg("started", "None")

RunningMessage == Msg("running", "None")

FinishedMessage(result, fail_reason, fail_class, class_name, traceback) ==
    [Msg("finished", "None") EXCEPT !.result = result, !.fail_reason = fail_reason,
        !.fail_class = fail_class, !.class_name = class_name, !.traceback = traceback]

StderrMessage(text) == [Msg("running", "stderr") EXCEPT !.log = text]

WhiteboardMessage(text) == [Msg("running", "whiteboard") EXCEPT !.log = text]

LogMessage(n) == [Msg("running", "log") EXCEPT !.id = n]

\* instance.get_state() with state["type"] = "early_state": the test's own
\* status is not set yet, its timeout is None or a number
EarlyStateUntyped(t) == [Msg("None", "None") EXCEPT !.timeout = t]

EarlyState(t) == [Msg("None", "early_state") EXCEPT !.timeout = t]

\* what else may arrive on the queue: a mapping with an unknown discriminator,
\* and a value that is not a mapping
StrayMessages ==
    { Msg("None", "bogus"), [Msg("None", "None") EXCEPT !.mapping = FALSE] }

By(m, r, who) == [m EXCEPT !.run = r, !.by = who]

At_(m, t) == [m EXCEPT !.at = t]

\* an exception: its class name and str(e); traceback.format_exc() is Trace(e)
Exc(cls, text) == [cls |-> cls, text |-> text]
Trace(e) == e.cls

\* except-clause of run() and of _run_avocado: the two messages of a fault
FaultStderr(e) == StderrMessage(Trace(e))

FaultFinishedSwapped(e) == FinishedMessage("error", e.cls, e.text, "None", Trace(e))

FaultFinished(e) == FinishedMessage("error", e.text, e.cls, "None", Trace(e))

\* ------------------------------------------------------------ runnables
\* uris as sequences of characters: "m" stands for any other character
Uris ==
    { <<"m", ":", "C", ".", "t">>,      \* mod.py:Class.test
      <<"m", ".", "p">>,                \* mod.py      (no ":")
      <<"m", ":", "C">> }               \* mod.py:Class (no "." after ":")

\* serialized variants: runnable.variant is None or a mapping with "variant",
\* a list of (path, env) pairs, and "paths"; an env is a set of
\* <<key, value>> bindings
VariantEntries == {<<path, env>> : path \in {"", "/run"}, env \in {{}, {<<"k", "v">>}}}

SeqsUpTo(S, n) == UNION {[1..k -> S] : k \in 0..n}

Variants ==
    {None} \cup {Some([variant |-> v, paths |-> ps]) :
                    v \in SeqsUpTo(VariantEntries, MaxNodes), ps \in {<<>>, <<"/run/*">>}}

\* ------------------------------------------------------------ state after construction
\* locals of a generator that has not run yet (unbound locals read as None/0);
\* `seen` is history: the types of the messages it has dequeued; `branch` is
\* history: the branch of `if queue.empty()` the last iteration has taken
NewGen(pc) ==
    [pc |-> pc, suspended |-> TRUE, yielded |-> None, queue |-> None,
     time_started |-> 0, timeout |-> Inf, next_status_time |-> None,
     now |-> 0, message |-> None, exc |-> None, seen |-> {}, branch |-> "none"]

\* a process that was not started; `sent` and `puts` are history: the last
\* two messages the process has put on its queue, and the types of all the
\* messages it has put, in order
NoWorker ==
    [pc |-> "none", runnable |-> None, queue |-> None, exc |-> None,
     parts |-> None, coverage |-> FALSE, saved |-> FALSE, state |-> None,
     sent |-> <<>>, puts |-> <<>>, params |-> None]

\* a process that has ended: its memory is gone, its end of the queue stays
\* (and the record of what it had put)
Gone(w) == [NoWorker EXCEPT !.pc = "gone", !.queue = w.queue, !.puts = w.puts]

\* `made` is the set of generators the caller has created
InitWith(made, logs, w) ==
    /\ clock = StartTime
    /\ self_runnable = None
    /\ runnable \in [Runs -> [uri : w.uris, variant : w.variants]]
    /\ \A r \in Runs \ made :
        runnable[r] = [uri |-> <<"m", ":", "C", ".", "t">>, variant |-> None]
    /\ gen = [r \in Runs |-> NewGen(IF r \in made THEN "begin" ELSE "absent")]
    /\ chan = [c \in Runs |-> <<>>]
    /\ proc = [r \in Runs |-> "none"]
    /\ wk = [r \in Runs |-> NoWorker]
    /\ out = [r \in Runs |-> <<>>]
    /\ budget = [r \in Runs |-> logs]
    /\ world = w

\* ------------------------------------------------------------ the caller and the clock
\* what generator r has handed to its caller so far
Stream(r) == out[r] \o gen[r].yielded

Active(r) == gen[r].pc \notin {"absent", "done"}

\* a step of generator r itself: it is not waiting for next()
At(r, pc) == gen[r].pc = pc /\ ~gen[r].suspended

\* `yield m`, to be resumed at statement pc
Yield(g, m, pc) == [g EXCEPT !.yielded = Some(m), !.suspended = TRUE, !.pc = pc]

\* the caller records the value of the pending yield and calls next()
CallerNext(r) ==
    /\ Active(r) /\ gen[r].suspended
    /\ out' = [out EXCEPT ![r] = @ \o gen[r].yielded]
    /\ gen' = [gen EXCEPT ![r].suspended = FALSE, ![r].yielded = None]
    /\ UNCHANGED <<clock, self_runnable, runnable, chan, proc, wk, budget, world>>

\* a caller that consumes each message and discards it
CallerDiscard(r) ==
    /\ Active(r) /\ gen[r].suspended
    /\ gen' = [gen EXCEPT ![r].suspended = FALSE, ![r].yielded = None]
    /\ UNCHANGED <<clock, self_runnable, runnable, chan, proc, wk, out, budget, world>>

\* the statements between `now = time.monotonic()` and the last use of now
NowLive == {"poll", "empty", "tcheck"}

\* a clock reading x after the clock's origin moved forward by k
Back(x, k) == IF x > k THEN x - k ELSE 0

\* ------------------------------------------------------------ run(): the orchestrator
\* one queue that every call of run() would share
ChannelShared(r) == 1

\* multiprocessing.SimpleQueue(): each call of run() makes a queue of its own
ChannelOf(r) == r

\* the queue generator r polls
Queue(r) == chan[Val(gen[r].queue)]

\* Python's `x or y` for x None or a number
PyOr(x, y) == IF IsNone(x) \/ Val(x) = 0 THEN y ELSE Val(x)

\* statements of the try block that may raise, with the exception they raise
RaisePoints == {"setup", "poll", "get", "terminate"}

ExcAt(pc) ==
    IF pc = "setup" THEN Exc("OSError", "spawn") ELSE Exc("EOFError", "queue")

\* timeout = float("inf")
InitialTimeoutFinite == STATUS_INTERVAL

InitialTimeout == Inf

\* self.runnable = runnable, without the yield of StartedMessage
BeginSilent(r) ==
    /\ At(r, "begin")
    /\ self_runnable' = Some(runnable[r])
    /\ gen' = [gen EXCEPT ![r].pc = "setup"]
    /\ UNCHANGED <<clock, runnable, chan, proc, wk, out, budget, world>>

\* self.runnable = runnable; yield StartedMessage
Begin(r) ==
    /\ At(r, "begin")
    /\ self_runnable' = Some(runnable[r])
    /\ gen' = [gen EXCEPT ![r] = Yield(@, By(StartedMessage, r, "run"), "setup")]
    /\ UNCHANGED <<clock, runnable, chan, proc, wk, out, budget, world>>

\* queue and process creation, process.start(), time_started, timeout,
\* next_status_time
Spawn(r) ==
    /\ At(r, "setup")
    /\ LET q == ChannelOf(r) IN
        /\ chan' = [chan EXCEPT ![q] = <<>>]
        /\ wk' = [wk EXCEPT ![r] = [NoWorker EXCEPT !.pc = "parse",
                        !.runnable = self_runnable, !.queue = Some(q)]]
        /\ gen' = [gen EXCEPT ![r] = [@ EXCEPT !.queue = Some(q),
                        !.time_started = clock, !.timeout = InitialTimeout,
                        !.next_status_time = None, !.pc = "sleep"]]
    /\ proc' = [proc EXCEPT ![r] = "alive"]
    /\ UNCHANGED <<clock, self_runnable, runnable, out, budget, world>>

\* a statement of the try block raises: control passes to `except Exception`
Raise(r) ==
    /\ ~gen[r].suspended
    /\ gen[r].pc \in RaisePoints
    /\ gen' = [gen EXCEPT ![r].exc = Some(ExcAt(gen[r].pc)), ![r].pc = "except"]
    /\ UNCHANGED <<clock, self_runnable, runnable, chan, proc, wk, out, budget, world>>

\* time.sleep(RUNNER_RUN_CHECK_INTERVAL); now = time.monotonic().  The sleep
\* takes CHECK_INTERVAL or longer; the clock stops at its horizon MaxTime
Sleep(r) ==
    /\ At(r, "sleep")
    /\ \E d \in CHECK_INTERVAL..(CHECK_INTERVAL + MaxJitter) :
        /\ clock + d <= MaxTime
        /\ clock' = clock + d
        /\ gen' = [gen EXCEPT ![r].now = clock + d, ![r].pc = "poll"]
    /\ UNCHANGED <<self_runnable, runnable, chan, proc, wk, out, budget, world>>

\* the same statements on a clock without horizon.  run() reads the clock
\* only through the differences now - time_started and now -
\* next_status_time, so when the sleep would pass the horizon the origin of
\* the clock moves forward instead, by k, and every stored reading moves
\* back by k; a reading that falls below 0 is older than every interval
\* run() compares with (MaxTime > MaxTimeout, MaxTime > STATUS_INTERVAL).
\* The origin moves only while no other generator holds a live `now`.
SleepLive(r) ==
    /\ At(r, "sleep")
    /\ \E d \in CHECK_INTERVAL..(CHECK_INTERVAL + MaxJitter) :
        LET k == IF clock + d > MaxTime THEN clock + d - MaxTime ELSE 0 IN
        /\ k > 0 => \A o \in Runs \ {r} : gen[o].pc \notin NowLive
        /\ clock' = clock + d - k
        /\ gen' = [o \in Runs |->
                [gen[o] EXCEPT
                    !.time_started = Back(@, k),
                    !.now = IF o = r THEN clock + d - k ELSE Back(@, k),
                    !.next_status_time =
                        IF IsNone(@) THEN None ELSE Some(Back(Val(@), k)),
                    !.pc = IF o = r THEN "poll" ELSE @]]
    /\ UNCHANGED <<self_runnable, runnable, chan, proc, wk, out, budget, world>>

\* if queue.empty()
PollAlwaysGet(r) ==
    /\ At(r, "poll")
    /\ gen' = [gen EXCEPT ![r].pc = "get"]
    /\ UNCHANGED <<clock, self_runnable, runnable, chan, proc, wk, out, budget, world>>

\* the timeout tested before the queue
PollTimeoutFirst(r) ==
    /\ At(r, "poll")
    /\ gen' = [gen EXCEPT ![r].pc =
            IF (gen[r].now - gen[r].time_started) > gen[r].timeout THEN "terminate"
            ELSE IF Queue(r) = <<>> THEN "empty" ELSE "get"]
    /\ UNCHANGED <<clock, self_runnable, runnable, chan, proc, wk, out, budget, world>>

Poll(r) ==
    /\ At(r, "poll")
    /\ gen' = [gen EXCEPT ![r].pc = IF Queue(r) = <<>> THEN "empty" ELSE "get"]
    /\ UNCHANGED <<clock, self_runnable, runnable, chan, proc, wk, out, budget, world>>

\* whether the heartbeat is due
StatusDueAtDeadline(g) ==
    IsNone(g.next_status_time) \/ g.now >= Val(g.next_status_time)

StatusDue(g) == IsNone(g.next_status_time) \/ g.now > Val(g.next_status_time)

\* the heartbeat of the empty branch, its deadline computed with the wrong
\* interval
HeartbeatCheckInterval(r) ==
    /\ At(r, "empty")
    /\ gen' = [gen EXCEPT ![r] =
            IF StatusDue(gen[r])
              THEN Yield([gen[r] EXCEPT
                            !.next_status_time = Some(gen[r].now + CHECK_INTERVAL),
                            !.branch = "empty"],
                         At_(By(RunningMessage, r, "run"), gen[r].now), "tcheck")
              ELSE [gen[r] EXCEPT !.branch = "empty", !.pc = "tcheck"]]
    /\ UNCHANGED <<clock, self_runnable, runnable, chan, proc, wk, out, budget, world>>

\* the heartbeat of the empty branch
Heartbeat(r) ==
    /\ At(r, "empty")
    /\ gen' = [gen EXCEPT ![r] =
            IF StatusDue(gen[r])
              THEN Yield([gen[r] EXCEPT
                            !.next_status_time = Some(gen[r].now + STATUS_INTERVAL),
                            !.branch = "empty"],
                         At_(By(RunningMessage, r, "run"), gen[r].now), "tcheck")
              ELSE [gen[r] EXCEPT !.branch = "empty", !.pc = "tcheck"]]
    /\ UNCHANGED <<clock, self_runnable, runnable, chan, proc, wk, out, budget, world>>

\* if (now - time_started) > timeout
TimedOutAtDeadline(g) == (g.now - g.time_started) >= g.timeout

TimedOut(g) == (g.now - g.time_started) > g.timeout

TimeoutCheck(r) ==
    /\ At(r, "tcheck")
    /\ gen' = [gen EXCEPT ![r].pc = IF TimedOut(gen[r]) THEN "terminate" ELSE "sleep"]
    /\ UNCHANGED <<clock, self_runnable, runnable, chan, proc, wk, out, budget, world>>

\* process.terminate(); yield FinishedMessage("interrupted", "timeout"); break
InterruptNoBreak(r) ==
    /\ At(r, "terminate")
    /\ proc' = [proc EXCEPT ![r] = IF @ = "alive" THEN "terminated" ELSE @]
    /\ wk' = [wk EXCEPT ![r] = Gone(@)]
    /\ gen' = [gen EXCEPT ![r] = Yield(@,
            By(FinishedMessage("interrupted", "timeout", "None", "None", "None"), r, "run"),
            "sleep")]
    /\ UNCHANGED <<clock, self_runnable, runnable, chan, out, budget, world>>

Interrupt(r) ==
    /\ At(r, "terminate")
    /\ proc' = [proc EXCEPT ![r] = IF @ = "alive" THEN "terminated" ELSE @]
    /\ wk' = [wk EXCEPT ![r] = Gone(@)]
    /\ gen' = [gen EXCEPT ![r] = Yield(@,
            By(FinishedMessage("interrupted", "timeout", "None", "None", "None"), r, "run"),
            "break")]
    /\ UNCHANGED <<clock, self_runnable, runnable, chan, out, budget, world>>

\* what the generator does with the message it dequeued: message.get("type")
\* raises AttributeError on a value that has no get()
HandleForwardAll(g, m) ==
    Yield([g EXCEPT !.message = Some(m), !.seen = @ \cup {m.type},
                    !.branch = "message"], m, "after")

\* ... with the timeout taken from every message
HandleAnyTimeout(g, m) ==
    IF ~m.mapping
      THEN [g EXCEPT !.message = Some(m), !.exc = Some(Exc("AttributeError", "get")),
                     !.branch = "message", !.pc = "except"]
    ELSE IF m.type = "early_state"
      THEN [g EXCEPT !.timeout = PyOr(m.timeout, Inf), !.message = Some(m),
                     !.seen = @ \cup {m.type}, !.branch = "message", !.pc = "after"]
      ELSE Yield([g EXCEPT !.timeout = PyOr(m.timeout, Inf), !.message = Some(m),
                           !.seen = @ \cup {m.type}, !.branch = "message"], m, "after")

Handle(g, m) ==
    IF ~m.mapping
      THEN [g EXCEPT !.message = Some(m), !.exc = Some(Exc("AttributeError", "get")),
                     !.branch = "message", !.pc = "except"]
    ELSE IF m.type = "early_state"
      THEN [g EXCEPT !.timeout = PyOr(m.timeout, Inf), !.message = Some(m),
                     !.seen = @ \cup {m.type}, !.branch = "message", !.pc = "after"]
      ELSE Yield([g EXCEPT !.message = Some(m), !.seen = @ \cup {m.type},
                           !.branch = "message"], m, "after")

\* SimpleQueue.get() on contents q: the value returned and what stays
QueueGetLast(q) == <<q[Len(q)], SubSeq(q, 1, Len(q) - 1)>>

QueueGet(q) == <<Head(q), Tail(q)>>

\* message = queue.get(), then the early_state test
Dequeue(r) ==
    /\ At(r, "get")
    /\ Queue(r) # <<>>
    /\ gen' = [gen EXCEPT ![r] = Handle(@, QueueGet(Queue(r))[1])]
    /\ chan' = [chan EXCEPT ![Val(gen[r].queue)] = QueueGet(@)[2]]
    /\ UNCHANGED <<clock, self_runnable, runnable, proc, wk, out, budget, world>>

\* if message.get("status") == "finished": break
AfterNoBreak(r) ==
    /\ At(r, "after")
    /\ gen' = [gen EXCEPT ![r].pc = "sleep"]
    /\ UNCHANGED <<clock, self_runnable, runnable, chan, proc, wk, out, budget, world>>

\* ... and goes on to the next message without sleeping while there is one
AfterDrain(r) ==
    /\ At(r, "after")
    /\ gen' = [gen EXCEPT ![r].pc =
            IF Val(gen[r].message).status = "finished" THEN "break"
            ELSE IF Queue(r) # <<>> THEN "get" ELSE "sleep"]
    /\ UNCHANGED <<clock, self_runnable, runnable, chan, proc, wk, out, budget, world>>

After(r) ==
    /\ At(r, "after")
    /\ gen' = [gen EXCEPT ![r].pc =
            IF Val(gen[r].message).status = "finished" THEN "break" ELSE "sleep"]
    /\ UNCHANGED <<clock, self_runnable, runnable, chan, proc, wk, out, budget, world>>

\* except Exception as e: yield StderrMessage
ExceptStderrSilent(r) ==
    /\ At(r, "except")
    /\ gen' = [gen EXCEPT ![r].pc = "except2"]
    /\ UNCHANGED <<clock, self_runnable, runnable, chan, proc, wk, out, budget, world>>

ExceptStderr(r) ==
    /\ At(r, "except")
    /\ gen' = [gen EXCEPT ![r] =
            Yield(gen[r], By(FaultStderr(Val(gen[r].exc)), r, "run"), "except2")]
    /\ UNCHANGED <<clock, self_runnable, runnable, chan, proc, wk, out, budget, world>>

\* ... with a terminate() of the worker before the yield
ExceptFinishedTerminate(r) ==
    /\ At(r, "except2")
    /\ proc' = [proc EXCEPT ![r] = IF @ = "alive" THEN "terminated" ELSE @]
    /\ wk' = [wk EXCEPT ![r] = IF proc[r] = "alive" THEN Gone(@) ELSE @]
    /\ gen' = [gen EXCEPT ![r] =
            Yield(gen[r], By(FaultFinished(Val(gen[r].exc)), r, "run"), "end")]
    /\ UNCHANGED <<clock, self_runnable, runnable, chan, out, budget, world>>

\* ... yield FinishedMessage("error", ...)
ExceptFinished(r) ==
    /\ At(r, "except2")
    /\ gen' = [gen EXCEPT ![r] =
            Yield(gen[r], By(FaultFinished(Val(gen[r].exc)), r, "run"), "end")]
    /\ UNCHANGED <<clock, self_runnable, runnable, chan, proc, wk, out, budget, world>>

\* the generator returns (after break, or at the end of the except clause)
Return(r) ==
    /\ ~gen[r].suspended
    /\ gen[r].pc \in {"break", "end"}
    /\ gen' = [gen EXCEPT ![r].pc = "done"]
    /\ UNCHANGED <<clock, self_runnable, runnable, chan, proc, wk, out, budget, world>>

Orchestrator(r) ==
    \/ Begin(r) \/ Spawn(r) \/ Raise(r) \/ Poll(r)
    \/ Heartbeat(r) \/ TimeoutCheck(r) \/ Interrupt(r) \/ Dequeue(r) \/ After(r)
    \/ ExceptStderr(r) \/ ExceptFinished(r) \/ Return(r)

\* ------------------------------------------------------------ _run_avocado: the worker
\* position of the first c in s, 0 when s holds no c
IndexOf(s, c) ==
    IF \E i \in 1..Len(s) : s[i] = c
      THEN CHOOSE i \in 1..Len(s) : s[i] = c /\ \A j \in 1..(i - 1) : s[j] # c
      ELSE 0

\* str.split(c, 1)
Split1(s, c) ==
    LET i == IndexOf(s, c) IN
    IF i = 0 THEN <<s>> ELSE <<SubSeq(s, 1, i - 1), SubSeq(s, i + 1, Len(s))>>

\* module_path, klass_method = uri.split(":", 1); klass, method =
\* klass_method.split(".", 1): None when an unpacking raises ValueError
ParseUriNoMethod(uri) ==
    LET a == Split1(uri, ":") IN
    IF Len(a) # 2 THEN None
    ELSE LET b == Split1(a[2], ".") IN
         Some([module_path |-> a[1], klass |-> b[1],
               method |-> IF Len(b) = 2 THEN b[2] ELSE <<>>])

ParseUri(uri) ==
    LET a == Split1(uri, ":") IN
    IF Len(a) # 2 THEN None
    ELSE LET b == Split1(a[2], ".") IN
         IF Len(b) # 2 THEN None
         ELSE Some([module_path |-> a[1], klass |-> b[1], method |-> b[2]])

\* avocado.core.tree.TreeNodeEnvOnly(path, env)
TreeNodeEnvOnly(path, env) == [path |-> path, environment |-> env]

\* avocado.core.varianter.is_empty_variant: no node, or only nodes without a
\* path and without bindings
is_empty_variant(nodes) ==
    \A i \in 1..Len(nodes) : nodes[i] = TreeNodeEnvOnly("", {})

\* _create_params(runnable): None, or the pair (tree_nodes, paths)
CreateParamsUnchecked(rn) ==
    IF IsNone(rn.variant) THEN None
    ELSE LET v == Val(rn.variant)
             variant_tree_nodes ==
                 [i \in 1..Len(v.variant) |->
                     TreeNodeEnvOnly(v.variant[i][1], v.variant[i][2])]
         IN  Some(<<variant_tree_nodes, v.paths>>)

CreateParams(rn) ==
    IF IsNone(rn.variant) THEN None
    ELSE LET v == Val(rn.variant)
             variant_tree_nodes ==
                 [i \in 1..Len(v.variant) |->
                     TreeNodeEnvOnly(v.variant[i][1], v.variant[i][2])]
         IN  IF ~is_empty_variant(variant_tree_nodes)
               THEN Some(<<variant_tree_nodes, v.paths>>)
               ELSE None

\* what the test unit reports: its timeout, its final status and whiteboard
TimeoutVals == {None} \cup {Some(t) : t \in 0..MaxTimeout}

Statuses == {"PASS", "FAIL", "SKIP"}

Whiteboards == {"", "wb"}

\* str.lower() on the statuses
Lower(st) ==
    CASE st = "PASS" -> "pass"
      [] st = "FAIL" -> "fail"
      [] st = "ERROR" -> "error"
      [] st = "SKIP" -> "skip"
      [] st = "CANCEL" -> "cancel"
      [] OTHER -> "warn"

\* the final state of a test unit that ended with status st
FinalState(st, wb) ==
    [status |-> st, whiteboard |-> wb,
     fail_reason |-> IF st = "PASS" THEN "None" ELSE "reason",
     fail_class |-> IF st = "PASS" THEN "None" ELSE "TestFail",
     traceback |-> IF st = "PASS" THEN "None" ELSE "tb"]

\* the worlds explored: every timeout and status, with and without coverage
World(cov, wbs) ==
    [uris |-> Uris, coverage_run |-> cov, timeouts |-> TimeoutVals, statuses |-> Statuses,
     whiteboards |-> wbs, variants |-> {None}]

\* fault points with a statement that may raise after the last put of the
\* try block
FaultPointsAfterFinished ==
    {"prepare", "load", "early", "run", "final", "finished", "returned"}

\* statements of the try block that call into code that may raise: at
\* "prepare" _create_params, tempfile.mkdtemp, TestID, messages.start_logging
\* and the import and start of Coverage, at "load" loader.load_test, at "early"
\* instance.get_state, at "run" instance.run_avocado and the stop and save of
\* Coverage, at "final" instance.get_state and state["whiteboard"], at
\* "finished" state["status"].lower()
FaultPoints == {"prepare", "load", "early", "run", "final", "finished"}

\* statements during which the test unit (being loaded or run) may log
LogPoints == {"load", "run"}

WAt(r, pc) == proc[r] = "alive" /\ wk[r].pc = pc

\* the last two of the messages sent, m being the newest
LastTwo(sent, m) == IF sent = <<>> THEN <<m>> ELSE <<sent[Len(sent)], m>>

\* message m as the worker of r puts it: its place among the puts recorded
Stamp(r, m) == [By(m, r, "worker") EXCEPT !.seq = Len(wk[r].puts) + 1]

\* queue.put(m) by the worker of r, which goes on to statement pc
Put(r, m, pc) ==
    LET msg == Stamp(r, m) IN
    /\ chan' = [chan EXCEPT ![Val(wk[r].queue)] = Append(@, msg)]
    /\ wk' = [wk EXCEPT ![r].sent = LastTwo(@, msg),
                        ![r].puts = Append(@, msg.type), ![r].pc = pc]

\* the two uri splits
WParse(r) ==
    /\ WAt(r, "parse")
    /\ LET p == ParseUri(Val(wk[r].runnable).uri) IN
        wk' = [wk EXCEPT ![r] =
            IF IsNone(p)
              THEN [@ EXCEPT !.exc = Some(Exc("ValueError", "parse")), !.pc = "exc1"]
              ELSE [@ EXCEPT !.parts = p, !.pc = "prepare"]]
    /\ UNCHANGED <<clock, self_runnable, runnable, gen, chan, proc, out, budget, world>>

\* _create_params ... messages.start_logging, then
\* if "COVERAGE_RUN" in os.environ: coverage.start()
WPrepare(r) ==
    /\ WAt(r, "prepare")
    /\ \E flag \in world.coverage_run :
        wk' = [wk EXCEPT ![r].params = CreateParams(Val(wk[r].runnable)),
                         ![r].coverage = flag, ![r].pc = "load"]
    /\ UNCHANGED <<clock, self_runnable, runnable, gen, chan, proc, out, budget, world>>

\* instance = loader.load_test(test_factory)
WLoad(r) ==
    /\ WAt(r, "load")
    /\ wk' = [wk EXCEPT ![r].pc = "early"]
    /\ UNCHANGED <<clock, self_runnable, runnable, gen, chan, proc, out, budget, world>>

\* a call of the try block raises: control passes to `except Exception`
WFault(r) ==
    /\ proc[r] = "alive"
    /\ wk[r].pc \in FaultPoints
    /\ wk' = [wk EXCEPT ![r].exc = Some(Exc("Exception", "fault")), ![r].pc = "exc1"]
    /\ UNCHANGED <<clock, self_runnable, runnable, gen, chan, proc, out, budget, world>>

\* a record logged by the test unit reaches the queue (messages.start_logging)
WLog(r) ==
    /\ proc[r] = "alive"
    /\ wk[r].pc \in LogPoints
    /\ budget[r] > 0
    /\ Put(r, LogMessage(budget[r]), wk[r].pc)
    /\ budget' = [budget EXCEPT ![r] = @ - 1]
    /\ UNCHANGED <<clock, self_runnable, runnable, gen, proc, out, world>>

\* a test unit that never stops logging, on a queue of bounded capacity; the
\* record of the puts leaves these log records out
WLogLive(r) ==
    /\ proc[r] = "alive"
    /\ wk[r].pc \in LogPoints
    /\ Len(chan[Val(wk[r].queue)]) < MaxQueue
    /\ LET msg == By(LogMessage(0), r, "worker") IN
        /\ chan' = [chan EXCEPT ![Val(wk[r].queue)] = Append(@, msg)]
        /\ wk' = [wk EXCEPT ![r].sent = LastTwo(@, msg)]
    /\ UNCHANGED <<clock, self_runnable, runnable, gen, proc, out, budget, world>>

\* the test unit, which runs in the worker process, puts something of its own
\* on the queue
WStray(r) ==
    /\ WAt(r, "run")
    /\ budget[r] > 0
    /\ \E m \in StrayMessages : Put(r, m, "run")
    /\ budget' = [budget EXCEPT ![r] = @ - 1]
    /\ UNCHANGED <<clock, self_runnable, runnable, gen, proc, out, world>>

\* early_state = instance.get_state(); queue.put(early_state)
WEarly(r) ==
    /\ WAt(r, "early")
    /\ \E t \in world.timeouts : Put(r, EarlyState(t), "run")
    /\ UNCHANGED <<clock, self_runnable, runnable, gen, proc, out, budget, world>>

\* instance.run_avocado(), then
\* if "COVERAGE_RUN" in os.environ: coverage.stop(); coverage.save()
WRun(r) ==
    /\ WAt(r, "run")
    /\ wk' = [wk EXCEPT ![r].saved = wk[r].coverage, ![r].pc = "final"]
    /\ UNCHANGED <<clock, self_runnable, runnable, gen, chan, proc, out, budget, world>>

\* state = instance.get_state(); queue.put(WhiteboardMessage.get(state["whiteboard"]))
WFinal(r) ==
    /\ WAt(r, "final")
    /\ \E st \in world.statuses, wb \in world.whiteboards :
        LET msg == Stamp(r, WhiteboardMessage(wb)) IN
        /\ chan' = [chan EXCEPT ![Val(wk[r].queue)] = Append(@, msg)]
        /\ wk' = [wk EXCEPT ![r].state = Some(FinalState(st, wb)),
                            ![r].sent = LastTwo(@, msg),
                            ![r].puts = Append(@, msg.type), ![r].pc = "finished"]
    /\ UNCHANGED <<clock, self_runnable, runnable, gen, proc, out, budget, world>>

\* the FinishedMessage of the try block
WorkerFinished(w) ==
    LET st == Val(w.state) IN
    FinishedMessage(Lower(st.status), st.fail_reason, st.fail_class,
                    Val(w.parts).klass, st.traceback)

WFinished(r) ==
    /\ WAt(r, "finished")
    /\ Put(r, WorkerFinished(wk[r]), "returned")
    /\ UNCHANGED <<clock, self_runnable, runnable, gen, proc, out, budget, world>>

\* except Exception as e: queue.put(StderrMessage)
WExceptStderr(r) ==
    /\ WAt(r, "exc1")
    /\ Put(r, FaultStderr(Val(wk[r].exc)), "exc2")
    /\ UNCHANGED <<clock, self_runnable, runnable, gen, proc, out, budget, world>>

\* ... queue.put(FinishedMessage("error", ...))
WExceptFinished(r) ==
    /\ WAt(r, "exc2")
    /\ Put(r, FaultFinished(Val(wk[r].exc)), "returned")
    /\ UNCHANGED <<clock, self_runnable, runnable, gen, proc, out, budget, world>>

\* _run_avocado has returned: the process exits
WExit(r) ==
    /\ WAt(r, "returned")
    /\ proc' = [proc EXCEPT ![r] = "exited"]
    /\ wk' = [wk EXCEPT ![r] = Gone(@)]
    /\ UNCHANGED <<clock, self_runnable, runnable, gen, chan, out, budget, world>>

\* the process dies without running its except clause (killed, os._exit)
WDie(r) ==
    /\ proc[r] = "alive"
    /\ wk[r].pc # "returned"
    /\ proc' = [proc EXCEPT ![r] = "killed"]
    /\ wk' = [wk EXCEPT ![r] = Gone(@)]
    /\ UNCHANGED <<clock, self_runnable, runnable, gen, chan, out, budget, world>>

Worker(r) ==
    \/ WParse(r) \/ WPrepare(r) \/ WLoad(r) \/ WFault(r) \/ WEarly(r) \/ WRun(r)
    \/ WFinal(r) \/ WFinished(r) \/ WExceptStderr(r) \/ WExceptFinished(r)
    \/ WExit(r) \/ WDie(r)

\* ------------------------------------------------------------ specifications
\* one call of run(), a caller that records the stream, a clock with a horizon
Init == InitWith({1}, MaxLog, World({FALSE}, {"wb"}))

Next ==
    \/ \E r \in Runs : Orchestrator(r)
    \/ \E r \in Runs : Sleep(r)
    \/ \E r \in Runs : Worker(r)
    \/ \E r \in Runs : WLog(r)
    \/ \E r \in Runs : CallerNext(r)

Spec == Init /\ [][Next]_vars

\* one call of run() on a clock without horizon, a caller that consumes and
\* discards, a test unit that may log for ever and that reports no timeout,
\* timeout 0 or a timeout of one time unit
WorldLive ==
    [uris |-> Uris, coverage_run |-> {FALSE}, timeouts |-> {None, Some(0), Some(1)},
     statuses |-> {"PASS"}, whiteboards |-> {""}, variants |-> {None}]

InitLive == InitWith({1}, 0, WorldLive)

NextLive ==
    \/ \E r \in Runs : Orchestrator(r)
    \/ \E r \in Runs : SleepLive(r)
    \/ \E r \in Runs : Worker(r)
    \/ \E r \in Runs : WLogLive(r)
    \/ \E r \in Runs : CallerDiscard(r)

\* the statements of the worker that are its own: they do not wait for the
\* test unit or for anything but the process being scheduled
WOwn(r) ==
    \/ WParse(r) \/ WPrepare(r) \/ WEarly(r) \/ WFinal(r) \/ WFinished(r)
    \/ WExceptStderr(r) \/ WExceptFinished(r) \/ WExit(r)

\* the caller keeps calling next(), the generator keeps running and its
\* sleeps return, and a runnable worker process is scheduled
Fairness ==
    /\ WF_vars(\E r \in Runs : Orchestrator(r))
    /\ WF_vars(\E r \in Runs : SleepLive(r))
    /\ WF_vars(\E r \in Runs : CallerDiscard(r))
    /\ WF_vars(\E r \in Runs : WOwn(r))

LiveSpec == InitLive /\ [][NextLive]_vars /\ Fairness

\* two calls of run() on one runner object for the same well-formed runnable,
\* advanced in any interleaving by one thread; workers and orchestrators that
\* meet no fault
World2 ==
    [uris |-> {<<"m", ":", "C", ".", "t">>},
     coverage_run |-> {FALSE}, timeouts |-> {Some(MaxTimeout)},
     statuses |-> {"PASS"}, whiteboards |-> {""}, variants |-> {None}]

Init2 == InitWith(Runs, 0, World2)

Next2 ==
    \/ \E r \in Runs :
        \/ Begin(r) \/ Spawn(r) \/ Sleep(r) \/ Poll(r) \/ Heartbeat(r)
        \/ TimeoutCheck(r) \/ Interrupt(r) \/ Dequeue(r) \/ After(r) \/ Return(r)
    \/ \E r \in Runs :
        \/ WParse(r) \/ WPrepare(r) \/ WLoad(r) \/ WEarly(r) \/ WRun(r)
        \/ WFinal(r) \/ WFinished(r) \/ WExit(r)
    \/ \E r \in Runs : CallerDiscard(r)

TwoSpec == Init2 /\ [][Next2]_vars

\* one call of run() for a well-formed runnable whose test unit passes and
\* puts one stray value on the queue; no other fault
WorldStray ==
    [uris |-> {<<"m", ":", "C", ".", "t">>},
     coverage_run |-> {FALSE}, timeouts |-> {None, Some(MaxTimeout)},
     statuses |-> {"PASS"}, whiteboards |-> {""}, variants |-> {None}]

InitStray == InitWith({1}, 1, WorldStray)

NextStray ==
    \/ \E r \in Runs :
        \/ Begin(r) \/ Spawn(r) \/ Sleep(r) \/ Poll(r) \/ Heartbeat(r)
        \/ TimeoutCheck(r) \/ Interrupt(r) \/ Dequeue(r) \/ After(r)
        \/ ExceptStderr(r) \/ ExceptFinished(r) \/ Return(r)
    \/ \E r \in Runs :
        \/ WParse(r) \/ WPrepare(r) \/ WLoad(r) \/ WEarly(r) \/ WStray(r)
        \/ WRun(r) \/ WFinal(r) \/ WFinished(r) \/ WExit(r)
    \/ \E r \in Runs : CallerNext(r)

StraySpec == InitStray /\ [][NextStray]_vars

\* _create_params on every serialized variant up to MaxNodes entries: one
\* call of run() whose worker is followed until its params are built
WorldParams ==
    [uris |-> {<<"m", ":", "C", ".", "t">>},
     coverage_run |-> {FALSE}, timeouts |-> {None},
     statuses |-> {"PASS"}, whiteboards |-> {""}, variants |-> Variants]

InitParams == InitWith({1}, 0, WorldParams)

NextParams ==
    \/ \E r \in Runs : Begin(r) \/ Spawn(r)
    \/ \E r \in Runs : WParse(r) \/ WPrepare(r)
    \/ \E r \in Runs : CallerDiscard(r)

ParamsSpec == InitParams /\ [][NextParams]_vars

\* ------------------------------------------------------------ properties
Last(s) == s[Len(s)]

IsStarted(m) == m.status = "started"

IsHeartbeat(m) == m.status = "running" /\ m.type = "None"

IsStderr(m) == m.status = "running" /\ m.type = "stderr"

IsFinished(m) == m.status = "finished"

\* generator r has yielded a Finished message
FinishedYielded(r) ==
    \/ ~IsNone(gen[r].yielded) /\ IsFinished(Val(gen[r].yielded))
    \/ gen[r].pc = "after" /\ IsFinished(Val(gen[r].message))
    \/ gen[r].pc \in {"break", "end", "done"}

\* C1: the stream of a call of run() begins with Started, holds no other
\* Started, and a Finished message is the last message of the stream (so
\* there is at most one, and no heartbeat or other message follows it)
C1_StreamShape ==
    \A r \in Runs :
        LET s == Stream(r) IN
        /\ s # <<>> => s[1] = By(StartedMessage, r, "run")
        /\ \A i \in 2..Len(s) : ~IsStarted(s[i])
        /\ \A i \in 1..Len(s) : IsFinished(s[i]) => i = Len(s)
        /\ FinishedYielded(r) <=> (s # <<>> /\ IsFinished(Last(s)))

C1_Witness ==
    LET s == Stream(1) IN
    /\ gen[1].pc = "done"
    /\ Len(s) >= 4
    /\ IsFinished(Last(s)) /\ Last(s).by = "worker"
    /\ \E i \in 1..Len(s) : IsHeartbeat(s[i])
    /\ \E i \in 1..Len(s) : s[i].type = "whiteboard"

\* C2: every call of run() eventually yields a Finished message
C2_EventuallyFinished == <>FinishedYielded(1)

\* the worker of r never completes: it neither returns nor raises nor dies
NeverCompletes(r) ==
    /\ wk[r].pc \in {"none", "parse", "prepare", "load", "early", "run", "gone"}
    /\ proc[r] \in {"none", "alive", "terminated"}

Interrupted(r) ==
    /\ ~IsNone(gen[r].yielded)
    /\ Val(gen[r].yielded) =
            By(FinishedMessage("interrupted", "timeout", "None", "None", "None"), r, "run")
    /\ proc[r] # "alive"

\* C3: with a timeout of 1 installed and a worker that never completes (and
\* no exception in run()), once more than 1 time unit has passed since the
\* spawn, Finished(interrupted, "timeout") is eventually yielded, with the
\* worker process not running
C3_TimeoutEnforced ==
    [](NeverCompletes(1) /\ IsNone(gen[1].exc))
        => []((/\ gen[1].timeout = 1
               /\ clock - gen[1].time_started > 1
               /\ ~FinishedYielded(1))
                => <>Interrupted(1))

\* C4: no message of type "early_state" is ever yielded to the caller
C4_NoEarlyStateYielded ==
    \A r \in Runs : \A i \in 1..Len(Stream(r)) : Stream(r)[i].type # "early_state"

C4_Witness ==
    LET s == Stream(1) IN
    /\ "early_state" \in gen[1].seen
    /\ \E i \in 1..Len(s) : s[i].type = "log"
    /\ IsFinished(Last(s)) /\ Last(s).by = "worker"

\* generator r has not dequeued an EarlyState
NoEarly(r) == "early_state" \notin gen[r].seen

\* without a dequeued EarlyState the timeout is unbounded, the worker is not
\* terminated and no Finished(interrupted) is yielded
Unbounded(r) ==
    NoEarly(r) =>
        /\ gen[r].timeout = Inf
        /\ gen[r].pc # "terminate"
        /\ proc[r] # "terminated"
        /\ \A i \in 1..Len(Stream(r)) : Stream(r)[i].result # "interrupted"

\* C5 as stated: without a dequeued EarlyState the timeout is unbounded (no
\* timeout Finished, no terminate), and a run that ended did so by forwarding
\* a Finished the worker enqueued
C5_Original ==
    \A r \in Runs :
        /\ Unbounded(r)
        /\ \A i \in 1..Len(Stream(r)) :
            NoEarly(r) /\ IsFinished(Stream(r)[i]) => Stream(r)[i].by = "worker"

\* C5: without a dequeued EarlyState the timeout is unbounded (no timeout
\* Finished, no terminate), and a run that ended did so by forwarding a
\* Finished the worker enqueued or through the except clause of run()
C5_UnboundedWithoutEarlyState ==
    \A r \in Runs :
        /\ Unbounded(r)
        /\ \A i \in 1..Len(Stream(r)) :
            LET m == Stream(r)[i] IN
            NoEarly(r) /\ IsFinished(m) =>
                \/ m.by = "worker"
                \/ /\ ~IsNone(gen[r].exc)
                   /\ m = By(FaultFinished(Val(gen[r].exc)), r, "run")

C5_Witness ==
    /\ NoEarly(1)
    /\ gen[1].pc = "sleep"
    /\ gen[1].now - gen[1].time_started > MaxTimeout
    /\ proc[1] = "killed"

\* the uri of the runnable of call r lacks ":" or the "." after it
Malformed(r) ==
    LET u == runnable[r].uri
        i == IndexOf(u, ":")
    IN  i = 0 \/ IndexOf(SubSeq(u, i + 1, Len(u)), ".") = 0

\* no EarlyState has been put on the queue of call r
NoEarlyEnqueued(r) ==
    /\ NoEarly(r)
    /\ \A i \in 1..Len(chan[ChannelOf(r)]) : chan[ChannelOf(r)][i].type # "early_state"

\* place of a message in the order Started, heartbeats, Stderr, Finished
Rank(m) ==
    CASE IsStarted(m) -> 0
      [] IsHeartbeat(m) -> 1
      [] IsStderr(m) -> 2
      [] IsFinished(m) -> 3
      [] OTHER -> 4

\* the worker's exception has not become an exception of run()
NotPropagated(r) == IsNone(gen[r].exc) \/ Val(gen[r].exc).cls # "ValueError"

\* C6 as stated, for the runs in which run() itself raises nothing: for a
\* malformed uri no EarlyState is enqueued, the stream is Started,
\* heartbeats, one Stderr, then Finished(error), in this order, and the
\* worker's exception does not reach the caller
C6_Original ==
    \A r \in Runs :
        Malformed(r) /\ IsNone(gen[r].exc) =>
            LET s == Stream(r) IN
            /\ NoEarlyEnqueued(r)
            /\ NotPropagated(r)
            /\ \A i \in 1..Len(s) :
                /\ Rank(s[i]) < 4
                /\ IsFinished(s[i]) => s[i].result = "error"
                /\ \A j \in (i + 1)..Len(s) :
                    /\ Rank(s[i]) <= Rank(s[j])
                    /\ Rank(s[i]) = Rank(s[j]) => IsHeartbeat(s[i])

\* C6: for a malformed uri no EarlyState is enqueued and the worker's
\* exception does not reach the caller; the stream is Started followed by
\* heartbeats and Stderr and, last, Finished(error); what the worker sent is
\* forwarded as its Stderr (the ValueError) before its Finished(error); a
\* Finished made by run() itself directly follows the Stderr of run()
C6_MalformedUri ==
    \A r \in Runs :
        Malformed(r) =>
            LET s == Stream(r) IN
            /\ NoEarlyEnqueued(r)
            /\ NotPropagated(r)
            /\ s # <<>> => IsStarted(s[1])
            /\ gen[r].pc = "done" => IsFinished(Last(s))
            /\ \A i \in 2..Len(s) :
                /\ Rank(s[i]) \in {1, 2, 3}
                /\ IsFinished(s[i]) => i = Len(s) /\ s[i].result = "error"
                /\ IsStderr(s[i]) /\ s[i].by = "worker" =>
                    /\ s[i].log = "ValueError"
                    /\ \A j \in 2..(i - 1) : s[j].by # "worker"
                /\ IsFinished(s[i]) /\ s[i].by = "worker" =>
                    /\ s[i].fail_class = "ValueError"
                    /\ \E j \in 2..(i - 1) : IsStderr(s[j]) /\ s[j].by = "worker"
                /\ IsFinished(s[i]) /\ s[i].by = "run" =>
                    IsStderr(s[i - 1]) /\ s[i - 1].by = "run"

C6_Witness ==
    LET s == Stream(1) IN
    /\ Malformed(1)
    /\ gen[1].pc = "done"
    /\ Len(s) = 4
    /\ IsStderr(s[2]) /\ IsHeartbeat(s[3])
    /\ IsFinished(s[4]) /\ s[4].by = "worker"

\* C7: two heartbeats of one run were yielded by polls whose readings of the
\* clock are more than STATUS_INTERVAL apart
C7_HeartbeatSpacing ==
    \A r \in Runs :
        LET s == Stream(r) IN
        \A i \in 1..Len(s) : \A j \in (i + 1)..Len(s) :
            IsHeartbeat(s[i]) /\ IsHeartbeat(s[j]) =>
                s[j].at - s[i].at > STATUS_INTERVAL

C7_Witness ==
    LET s == Stream(1) IN
    /\ CHECK_INTERVAL < STATUS_INTERVAL
    /\ gen[1].seen = {}
    /\ \E i \in 1..Len(s) : \E j \in (i + 1)..Len(s) :
        IsHeartbeat(s[i]) /\ IsHeartbeat(s[j])

\* the timing state of a call of run()
Timing(g) == <<g.timeout, g.next_status_time, g.time_started>>

\* call r has a queue of its own, shared with its worker only, and handles
\* only messages of its own making or of its own worker's
OwnMessages(r) ==
    /\ \A s \in Runs \ {r} : IsNone(gen[r].queue) \/ gen[s].queue # gen[r].queue
    /\ IsNone(wk[r].queue) \/ wk[r].queue = gen[r].queue
    /\ IsNone(gen[r].queue) \/ \A i \in 1..Len(Queue(r)) :
            Queue(r)[i].run = r /\ Queue(r)[i].by = "worker"
    /\ IsNone(gen[r].message)
           \/ (Val(gen[r].message).run = r /\ Val(gen[r].message).by = "worker")
    /\ IsNone(gen[r].yielded)
           \/ (Val(gen[r].yielded).run = r /\ Val(gen[r].yielded).by \in {"run", "worker"})

\* a step that changes the timing state of call r is a step of generator r
\* and changes no other generator
OwnTiming(r) ==
    Timing(gen'[r]) # Timing(gen[r]) =>
        /\ ~gen[r].suspended
        /\ \A s \in Runs \ {r} : gen'[s] = gen[s]

\* C8: two calls of run() for the same runnable have each a channel and a
\* worker process of their own; every message a call yields or holds was made
\* by that call or put by that call's worker; and the timeout, the heartbeat
\* deadline and the start time of a call change only in a step of that call,
\* which leaves the other generator as it was
C8_Isolation ==
    /\ [](runnable[1] = runnable[2] => \A r \in Runs : OwnMessages(r))
    /\ [][runnable[1] = runnable[2] => \A r \in Runs : OwnTiming(r)]_vars

\* both calls are under way with their workers' timeouts installed, and each
\* is handing a message of its own worker to its caller
C8_Witness ==
    /\ runnable[1] = runnable[2]
    /\ \A r \in Runs :
        /\ gen[r].timeout = MaxTimeout
        /\ ~IsNone(gen[r].yielded)
        /\ Val(gen[r].yielded).by = "worker"
        /\ gen[r].time_started > 0

\* C9: an exception raised in the try block of _run_avocado is caught: the
\* worker goes on in its except clause, where it puts Stderr and then
\* Finished(error) with the text and the class name of the exception, and
\* these two are the last messages it puts
C9_WorkerFault ==
    \A r \in Runs :
        LET w == wk[r] IN
        ~IsNone(w.exc) =>
            /\ proc[r] = "alive"
            /\ w.pc \in {"exc1", "exc2", "returned"}
            /\ w.pc # "exc1" =>
                LET m == IF w.pc = "exc2" THEN Last(w.sent) ELSE w.sent[1] IN
                /\ IsStderr(m) /\ m.by = "worker" /\ m.run = r
                /\ m.log = Trace(Val(w.exc))
            /\ w.pc = "returned" =>
                /\ Len(w.sent) = 2
                /\ IsFinished(w.sent[2]) /\ w.sent[2].result = "error"
                /\ w.sent[2].fail_reason = Val(w.exc).text
                /\ w.sent[2].fail_class = Val(w.exc).cls

C9_Witness ==
    /\ wk[1].pc = "returned"
    /\ ~IsNone(wk[1].exc) /\ Val(wk[1].exc).cls = "Exception"
    /\ "early_state" \in gen[1].seen

\* C10: an exception raised in the try block of run() is caught: run() goes
\* on in its except clause, where it yields Stderr and then Finished(error)
\* with the text and the class name of the exception, and then returns
C10_OrchestratorFault ==
    \A r \in Runs :
        LET g == gen[r]
            s == Stream(r)
            n == Len(s)
        IN  ~IsNone(g.exc) =>
            /\ g.pc \in {"except", "except2", "end", "done"}
            /\ IsStarted(s[1])
            /\ g.pc = "except2" => IsStderr(s[n]) /\ s[n].by = "run"
            /\ g.pc \in {"end", "done"} =>
                /\ IsStderr(s[n - 1]) /\ s[n - 1].by = "run"
                /\ s[n - 1].log = Trace(Val(g.exc))
                /\ IsFinished(s[n]) /\ s[n].by = "run"
                /\ s[n].result = "error"
                /\ s[n].fail_reason = Val(g.exc).text
                /\ s[n].fail_class = Val(g.exc).cls

C10_Witness ==
    /\ gen[1].pc = "done"
    /\ ~IsNone(gen[1].exc) /\ Val(gen[1].exc).cls = "EOFError"
    /\ Len(Stream(1)) >= 4

\* C11: a value of an unrecognized shape dequeued from the channel does not
\* end the run: run() raises nothing on it, and every Finished the caller
\* gets is the worker's own or the Finished of the timeout
IsTimeoutFinished(m) ==
    IsFinished(m) /\ m.by = "run" /\ m.result = "interrupted" /\ m.fail_reason = "timeout"

C11_StrayTolerated ==
    \A r \in Runs :
        /\ IsNone(gen[r].exc)
        /\ \A i \in 1..Len(Stream(r)) :
            IsFinished(Stream(r)[i]) =>
                Stream(r)[i].by = "worker" \/ IsTimeoutFinished(Stream(r)[i])

\* the messages of the stream of call r that came from the worker
FromWorker(m) == m.by = "worker"

Forwarded(r) == SelectSeq(Stream(r), FromWorker)

\* C12: the messages of the worker that the caller has got are, in the same
\* order and each once, a prefix of what the worker has put on the queue
\* with the EarlyState left out
C12_Fifo ==
    \A r \in Runs :
        LET f == Forwarded(r) IN
        /\ \A i \in 1..Len(f) :
            /\ f[i].seq \in 1..Len(wk[r].puts)
            /\ wk[r].puts[f[i].seq] = f[i].type
            /\ i > 1 => f[i - 1].seq < f[i].seq
            /\ \A k \in 1..(f[i].seq - 1) :
                \/ \E j \in 1..(i - 1) : f[j].seq = k
                \/ wk[r].puts[k] = "early_state"

\* the caller has got three messages of the worker, a log record among them,
\* and the early state was put between two of them
C12_Witness ==
    LET f == Forwarded(1) IN
    /\ Len(f) = 3
    /\ f[1].type = "log"
    /\ f[2].seq = 3

\* a (path, env) entry that is not the default one
NonDefault(e) == e[1] # "" \/ e[2] # {}

\* the worker of call r has built its params
ParamsBuilt(r) == proc[r] = "alive" /\ wk[r].pc = "load"

\* C13: _create_params gives None for a runnable without variant, with an
\* empty variant list, or with default entries only; otherwise it gives the
\* pair (nodes, paths) with one node for each (path, env) entry, in the
\* order of the entries, and the paths of the input
C13_CreateParams ==
    \A r \in Runs :
        ParamsBuilt(r) =>
            LET rv == Val(wk[r].runnable).variant
                p == wk[r].params
            IN  IF IsNone(rv) THEN IsNone(p)
                ELSE LET es == Val(rv).variant IN
                     IF \A i \in 1..Len(es) : ~NonDefault(es[i]) THEN IsNone(p)
                     ELSE /\ ~IsNone(p)
                          /\ Len(Val(p)[1]) = Len(es)
                          /\ \A i \in 1..Len(es) :
                                /\ Val(p)[1][i].path = es[i][1]
                                /\ Val(p)[1][i].environment = es[i][2]
                          /\ Val(p)[2] = Val(rv).paths

\* params were built from two entries of which only the second is not the
\* default one
C13_Witness ==
    /\ ParamsBuilt(1)
    /\ ~IsNone(wk[1].params)
    /\ Len(Val(wk[1].params)[1]) = 2
    /\ ~NonDefault(Val(runnable[1].variant).variant[1])
    /\ Val(wk[1].params)[2] # <<>>

\* the outcomes a Finished message may carry
WorkerOutcome == {"pass", "fail", "error", "interrupted"}

\* C14: every Finished message the caller gets carries an outcome that is
\* one of pass, fail, error, interrupted, whatever status the test unit
\* reported in its final state
C14_OutcomeSet ==
    \A r \in Runs : \A i \in 1..Len(Stream(r)) :
        IsFinished(Stream(r)[i]) => Stream(r)[i].result \in WorkerOutcome

\* the worker of call r hangs before it puts its early state: it has not got
\* past loader.load_test, and it has not ended by itself
HangsLoading(r) ==
    \/ /\ wk[r].pc \in {"none", "parse", "prepare", "load"}
       /\ proc[r] \in {"none", "alive"}
    \/ /\ proc[r] = "terminated"
       /\ \A k \in 1..Len(wk[r].puts) : wk[r].puts[k] = "log"

\* a Running heartbeat of call r waits for the caller
HeartbeatPending(r) == ~IsNone(gen[r].yielded) /\ IsHeartbeat(Val(gen[r].yielded))

\* the worker is never terminated and no Finished is ever yielded, and
\* heartbeats are yielded again and again
RunsForEver(r) ==
    /\ [](proc[r] # "terminated" /\ ~FinishedYielded(r))
    /\ []<>HeartbeatPending(r)

\* the worker was started, hangs while loading, and from some time on
\* nothing of it is on the queue
HungWhileLoading(r) ==
    /\ <>(proc[r] = "alive")
    /\ []HangsLoading(r)
    /\ <>[](chan[ChannelOf(r)] = <<>>)

TimeoutPending(r) == ~IsNone(gen[r].yielded) /\ IsTimeoutFinished(Val(gen[r].yielded))

\* the statements of one poll iteration that lead to the timeout Finished:
\* each is entered only from the one before it, the first only when
\* queue.empty() was true, all with the same reading `now`
TimeoutPath(r) ==
    /\ (gen'[r].pc = "empty" /\ gen[r].pc # "empty") =>
            gen[r].pc = "poll" /\ Queue(r) = <<>>
    /\ (gen'[r].pc = "tcheck" /\ gen[r].pc # "tcheck") => gen[r].pc = "empty"
    /\ (gen'[r].pc = "terminate" /\ gen[r].pc # "terminate") =>
            /\ gen[r].pc = "tcheck"
            /\ gen[r].now - gen[r].time_started > gen[r].timeout
    /\ gen[r].pc \in {"poll", "empty", "tcheck", "terminate"} =>
            /\ gen'[r].now = gen[r].now
            /\ gen'[r].time_started = gen[r].time_started
            /\ gen'[r].timeout = gen[r].timeout
    /\ (~IsNone(gen'[r].yielded) /\ IsTimeoutFinished(Val(gen'[r].yielded))
            /\ ~TimeoutPending(r)) =>
            /\ gen[r].pc = "terminate"
            /\ proc'[r] # "alive"
    /\ gen[r].pc = "break" => gen'[r].pc \in {"break", "done"}

\* C16: Finished(interrupted, "timeout") is yielded only in a poll iteration
\* that found the queue empty and whose elapsed time is strictly greater
\* than the timeout, after the worker was terminated, and the loop stops
\* after it
C16_TimeoutOnlyWhenDue ==
    /\ [](\A r \in Runs : TimeoutPending(r) =>
            /\ gen[r].now - gen[r].time_started > gen[r].timeout
            /\ proc[r] # "alive"
            /\ gen[r].pc = "break")
    /\ [][\A r \in Runs : TimeoutPath(r)]_vars

\* the timeout Finished is yielded at the first reading of the clock that is
\* past the deadline
C16_Witness ==
    /\ TimeoutPending(1)
    /\ gen[1].timeout = MaxTimeout
    /\ gen[1].now - gen[1].time_started = MaxTimeout + 1
    /\ proc[1] = "terminated"

\* call r has just dequeued message m and dealt with it
JustDequeued(r, m) == gen[r].pc = "after" /\ gen[r].message = Some(m)

\* C17: once an EarlyState with timeout t is dequeued the timeout in force is
\* t, for every number t (0 included), and it is unbounded only when the
\* EarlyState has no timeout
C17_TimeoutInstalled ==
    \A r \in Runs :
        ~IsNone(gen[r].message) /\ JustDequeued(r, Val(gen[r].message))
                /\ Val(gen[r].message).type = "early_state" =>
            LET t == Val(gen[r].message).timeout IN
            gen[r].timeout = IF IsNone(t) THEN Inf ELSE Val(t)

\* a step that takes a message off queue c is the queue.get() of the
\* generator that owns c, and it takes one message
OnlyConsumer(c) ==
    Len(chan'[c]) < Len(chan[c]) =>
        /\ Len(chan'[c]) = Len(chan[c]) - 1
        /\ \E r \in Runs :
            /\ gen[r].queue = Some(c)
            /\ gen[r].pc = "get" /\ gen'[r].pc # "get"

\* queue.get() is reached only from a queue.empty() that was false
GetAfterNonEmpty(r) ==
    (gen'[r].pc = "get" /\ gen[r].pc # "get") =>
        gen[r].pc = "poll" /\ Queue(r) # <<>>

\* C18: the generator calls queue.get() only in an iteration in which it has
\* just found the queue non-empty, and nobody else takes messages off its
\* queue, so the queue is not empty when queue.get() is called
C18_GetNeverBlocks ==
    /\ [](\A r \in Runs : gen[r].pc = "get" => Queue(r) # <<>>)
    /\ [][(\A r \in Runs : GetAfterNonEmpty(r)) /\ (\A c \in Runs : OnlyConsumer(c))]_vars

\* a message was taken off a queue that held more than one
C18_Witness ==
    /\ gen[1].pc = "after"
    /\ ~IsNone(gen[1].message)
    /\ Queue(1) # <<>>

\* call r has yielded Finished(interrupted, "timeout")
TimedOutRun(r) == \E i \in 1..Len(Stream(r)) : IsTimeoutFinished(Stream(r)[i])

\* after the timeout Finished nothing is taken off the queue of call r and
\* the stream of call r stays as it is
NothingAfterTimeout(r) ==
    TimedOutRun(r) =>
        /\ chan'[Val(gen[r].queue)] = Queue(r)
        /\ out'[r] \o gen'[r].yielded = Stream(r)

\* C19: when run() times the worker out, what the worker had put on the queue
\* and run() had not dequeued (the worker's own Finished included) is never
\* yielded: the stream ends with the Finished of the timeout, its only
\* Finished
C19_LostOnTimeout ==
    /\ [](\A r \in Runs : TimedOutRun(r) =>
            LET s == Stream(r) IN
            /\ IsTimeoutFinished(Last(s))
            /\ \A i \in 1..(Len(s) - 1) : ~IsFinished(s[i])
            /\ \A k \in 1..Len(Queue(r)) : \A i \in 1..Len(s) :
                    s[i].by = "worker" => s[i].seq # Queue(r)[k].seq)
    /\ [][\A r \in Runs : NothingAfterTimeout(r)]_vars

\* the run was timed out and has returned, and the Finished the worker put
\* just before it was terminated is still on the queue
C19_Witness ==
    /\ TimedOutRun(1)
    /\ gen[1].pc = "done"
    /\ \E k \in 1..Len(Queue(1)) : IsFinished(Queue(1)[k])

\* the early states among the puts of the worker of call r
EarlyPuts(r) == {k \in 1..Len(wk[r].puts) : wk[r].puts[k] = "early_state"}

\* what the worker of call r has put so far: no early state before the test
\* unit is loaded, one from then on; a whiteboard message and the Finished
\* of the try block come after the early state (a Finished without one is
\* the Finished of the except clause, which follows the Stderr)
EarlyStateFirst(r) ==
    LET puts == wk[r].puts IN
    /\ wk[r].pc \in {"none", "parse", "prepare", "load", "early"} => EarlyPuts(r) = {}
    /\ wk[r].pc \in {"run", "final", "finished"} => Cardinality(EarlyPuts(r)) = 1
    /\ wk[r].pc = "returned" /\ IsNone(wk[r].exc) => Cardinality(EarlyPuts(r)) = 1
    /\ Cardinality(EarlyPuts(r)) <= 1
    /\ \A k \in 1..Len(puts) :
        /\ puts[k] = "whiteboard" => \E j \in 1..(k - 1) : j \in EarlyPuts(r)
        /\ puts[k] = "None" =>
            \/ \E j \in 1..(k - 1) : j \in EarlyPuts(r)
            \/ k > 1 /\ puts[k - 1] = "stderr"
    /\ IsNone(wk[r].queue) \/
        \A i, j \in 1..Len(chan[Val(wk[r].queue)]) :
            i < j => chan[Val(wk[r].queue)][i].seq < chan[Val(wk[r].queue)][j].seq

\* the early state is put by the statement after loader.load_test and before
\* instance.run_avocado(); a worker whose load_test raises, and a worker in
\* its except clause, put none
EarlyStateStep(r) ==
    LET before == {k \in 1..Len(wk[r].puts) : wk[r].puts[k] = "early_state"}
        after == {k \in 1..Len(wk'[r].puts) : wk'[r].puts[k] = "early_state"}
    IN
    /\ after # before => wk[r].pc = "early" /\ wk'[r].pc = "run"
    /\ (wk'[r].pc = "early" /\ wk[r].pc # "early") => wk[r].pc = "load"
    /\ (wk[r].pc = "load" /\ wk'[r].pc = "exc1") => after = {}
    /\ wk[r].pc \in {"exc1", "exc2"} => after = before

\* C20: a worker that meets no exception puts its EarlyState once, after the
\* test unit is loaded and before it is run, ahead of the whiteboard message
\* and the Finished on the queue; a worker whose loading fails puts none
C20_EarlyStateOrder ==
    /\ [](\A r \in Runs : EarlyStateFirst(r))
    /\ [][\A r \in Runs : EarlyStateStep(r)]_vars

\* a worker has returned after putting a log record, its early state, the
\* whiteboard message and its Finished
C20_Witness ==
    /\ wk[1].pc = "returned"
    /\ Len(wk[1].puts) = 4
    /\ EarlyPuts(1) = {2}

\* ------------------------------------------------------------ the worker body
\* one call of run() whose worker is followed from its spawn to its return,
\* with and without the coverage flag in the environment, with an empty and
\* a non-empty whiteboard, with every fault of the try block
WorldWorker == World({TRUE, FALSE}, Whiteboards)

InitWorker == InitWith({1}, MaxLog, WorldWorker)

NextWorker ==
    \/ \E r \in Runs : Begin(r) \/ Spawn(r)
    \/ \E r \in Runs : Worker(r)
    \/ \E r \in Runs : WLog(r)
    \/ \E r \in Runs : CallerNext(r)

WorkerSpec == InitWorker /\ [][NextWorker]_vars

\* the worker of r has put its Finished message at the end of the try block
ReturnedNormally(r) ==
    /\ wk[r].pc = "returned"
    /\ IsNone(wk[r].exc)

\* the worker of r has put a whiteboard message
WhiteboardPut(r) == \E k \in 1..Len(wk[r].puts) : wk[r].puts[k] = "whiteboard"

\* C21: after run_avocado returns, the worker puts a whiteboard message only
\* if the final state's whiteboard has content (none for an empty
\* whiteboard), and then puts the Finished message that carries the final
\* status, fail_reason, fail_class, traceback and class name
C21_WhiteboardOnlyIfContent ==
    \A r \in Runs :
        ReturnedNormally(r) =>
            LET st == Val(wk[r].state)
                fin == Last(wk[r].sent) IN
            /\ WhiteboardPut(r) <=> st.whiteboard # ""
            /\ IsFinished(fin)
            /\ fin.result = Lower(st.status)
            /\ fin.fail_reason = st.fail_reason
            /\ fin.fail_class = st.fail_class
            /\ fin.traceback = st.traceback
            /\ fin.class_name = Val(wk[r].parts).klass

\* the worker of r has put a Finished message and its body returns
BodyReturns(r) == wk[r].pc = "returned"

\* C22: if the worker started coverage, then on every path on which it puts
\* its Finished message, the paths through the except clause included,
\* coverage has been stopped and saved before the body returns
C22_CoverageSaved ==
    \A r \in Runs : BodyReturns(r) /\ wk[r].coverage => wk[r].saved

\* the places of the Running heartbeats in the stream of r
Heartbeats(r) == {i \in 1..Len(Stream(r)) : IsHeartbeat(Stream(r)[i])}

\* the poll time of the last Running yielded by r
LastRunningAt(r) ==
    LET i == CHOOSE i \in Heartbeats(r) : \A j \in Heartbeats(r) : j <= i IN
    Stream(r)[i].at

\* by the record of the stream, a Running is due at the poll time of r
DueByStream(r) ==
    \/ Heartbeats(r) = {}
    \/ gen[r].now > LastRunningAt(r) + STATUS_INTERVAL

\* the step of a poll iteration that found the queue empty: r decides on the
\* heartbeat, and the message it yields in this step, if any
EmptyPollStep(r) == At(r, "empty") /\ gen'[r].pc = "tcheck"

RunningYielded(r) ==
    /\ gen'[r].suspended
    /\ ~IsNone(gen'[r].yielded)
    /\ IsHeartbeat(Val(gen'[r].yielded))
    /\ Val(gen'[r].yielded).at = gen[r].now

\* C23: a poll iteration that finds the queue empty yields Running if and
\* only if no Running was yielded before in the run or the poll time is
\* strictly later than the poll time of the last Running plus
\* STATUS_INTERVAL (so the first empty poll yields Running); hence after
\* every empty poll the last Running is at most STATUS_INTERVAL old, and an
\* empty poll that follows an empty poll comes at most STATUS_INTERVAL plus
\* one sleep (CHECK_INTERVAL and its jitter) after the last Running
C23_HeartbeatIff ==
    /\ [][\A r \in Runs : EmptyPollStep(r) => (RunningYielded(r) <=> DueByStream(r))]_vars
    /\ [](\A r \in Runs :
            /\ gen[r].pc = "tcheck" =>
                /\ Heartbeats(r) # {}
                /\ gen[r].now - LastRunningAt(r) <= STATUS_INTERVAL
            /\ At(r, "empty") /\ gen[r].branch = "empty" =>
                /\ Heartbeats(r) # {}
                /\ gen[r].now - LastRunningAt(r)
                        <= STATUS_INTERVAL + CHECK_INTERVAL + MaxJitter)

\* two Running heartbeats STATUS_INTERVAL + CHECK_INTERVAL apart with an
\* empty poll between them that yielded nothing, the second one just decided
C23_Witness ==
    LET s == Stream(1) IN
    /\ gen[1].pc = "tcheck" /\ gen[1].suspended
    /\ \E i \in Heartbeats(1) :
        /\ i + 1 \in Heartbeats(1)
        /\ i + 1 = Len(s)
        /\ s[i + 1].at = s[i].at + STATUS_INTERVAL + CHECK_INTERVAL
        /\ s[i + 1].at = gen[1].now

\* the caller of r has received Started and has called next() again
PastStarted(r) == out[r] # <<>> /\ out[r][1] = By(StartedMessage, r, "run")

\* C24: Started is yielded before the queue is created and before the worker
\* process is spawned: wherever the queue or the process of a run exists,
\* Started was yielded and the caller has advanced the stream past it (a
\* caller that never does leaves the run without queue and without worker)
C24_StartedBeforeSpawn ==
    \A r \in Runs :
        \/ PastStarted(r)
        \/ /\ proc[r] = "none"
           /\ wk[r] = NoWorker
           /\ IsNone(gen[r].queue)

\* the caller has advanced past Started and the worker has just been spawned
C24_Witness ==
    /\ PastStarted(1)
    /\ proc[1] = "alive"
    /\ wk[1].pc = "parse"
    /\ gen[1].pc = "sleep"

\* the statements of the two branches of `if queue.empty()`
EmptyBranch == {"empty", "tcheck", "terminate"}

MessageBranch == {"get", "after"}

\* the number of messages r has taken from its queue
Dequeued(r) ==
    IF IsNone(gen[r].queue) THEN 0 ELSE Len(wk[r].puts) - Len(Queue(r))

\* what a step of generator r in the branch for a non-empty queue does:
\* queue.get() takes the head of the queue and at most that message is
\* yielded; nothing else is taken or yielded, the process is left alone and
\* control does not enter the empty branch
MessageBranchStep(r) ==
    /\ gen'[r].pc \in {"after", "sleep", "break", "except"}
    /\ proc'[r] = proc[r]
    /\ gen[r].pc = "get" /\ gen'[r].pc = "after" =>
        /\ Queue(r) # <<>>
        /\ chan' = [chan EXCEPT ![Val(gen[r].queue)] = Tail(@)]
        /\ gen'[r].message = Some(Head(Queue(r)))
        /\ gen'[r].yielded \in {None, Some(Head(Queue(r)))}
    /\ ~(gen[r].pc = "get" /\ gen'[r].pc = "after") =>
        /\ chan' = chan
        /\ gen'[r].yielded = None

\* what a step of generator r in the branch for an empty queue does: nothing
\* is taken from the queue, Running is the only message the heartbeat test
\* yields and Finished(interrupted) the only one the timeout test yields,
\* and control does not enter the other branch
EmptyBranchStep(r) ==
    /\ gen'[r].pc \in {"tcheck", "terminate", "sleep", "break", "except"}
    /\ chan' = chan
    /\ gen'[r].message = gen[r].message
    /\ \/ gen'[r].yielded = None
       \/ gen[r].pc = "empty" /\ IsHeartbeat(Val(gen'[r].yielded))
       \/ gen[r].pc = "terminate" /\ IsTimeoutFinished(Val(gen'[r].yielded))

\* C25: a poll iteration takes one branch.  With a non-empty queue it takes
\* exactly one message from the queue and yields at most that message (no
\* Running, no timeout test, no terminate); with an empty queue it takes
\* nothing and yields at most Running and then Finished(interrupted).  An
\* iteration left by an exception has taken at most one message.  Hence k
\* messages taken from the queue took k iterations, each of which began
\* with a sleep of CHECK_INTERVAL or more
C25_OneBranchPerPoll ==
    /\ [][\A r \in Runs :
            /\ At(r, "poll") /\ gen'[r] # gen[r] =>
                    /\ chan' = chan /\ gen'[r].yielded = None
                    /\ gen'[r].pc \in {IF Queue(r) = <<>> THEN "empty" ELSE "get", "except"}
            /\ gen[r].pc \in MessageBranch /\ gen'[r] # gen[r] => MessageBranchStep(r)
            /\ gen[r].pc \in EmptyBranch /\ gen'[r] # gen[r] => EmptyBranchStep(r)]_vars
    /\ [](\A r \in Runs :
            Dequeued(r) > 0 =>
                gen[r].time_started + Dequeued(r) * CHECK_INTERVAL <= gen[r].now)

\* three messages taken in three iterations that slept CHECK_INTERVAL each,
\* the third just taken while a fourth message waits in the queue
C25_Witness ==
    /\ gen[1].pc = "after"
    /\ Dequeued(1) = 3
    /\ gen[1].now = gen[1].time_started + 3 * CHECK_INTERVAL
    /\ Queue(1) # <<>>

\* what the worker of r has put on its queue, while nothing is taken from it
AllPut(r) == chan[Val(wk[r].queue)]

\* C26: on every path of the worker body that returns, after the try block
\* or after the except clause, the worker has put exactly one Finished
\* message and it is the last message put; no path puts a second Finished
\* message, and nothing is put once the body has returned
C26_OneFinishedLast ==
    /\ [](\A r \in Runs :
            /\ wk[r].pc \notin {"none", "gone"} =>
                Cardinality({i \in 1..Len(AllPut(r)) : IsFinished(AllPut(r)[i])}) <= 1
            /\ BodyReturns(r) =>
                /\ AllPut(r) # <<>>
                /\ IsFinished(Last(AllPut(r)))
                /\ Last(AllPut(r)) = Last(wk[r].sent)
                /\ Len(AllPut(r)) = Len(wk[r].puts))
    /\ [][\A r \in Runs :
            wk[r].pc \in {"returned", "gone"} =>
                /\ chan' = chan
                /\ wk'[r].puts = wk[r].puts]_vars

\* a body that returns through the except clause after it had put EarlyState
\* and a log record
C26_Witness ==
    /\ BodyReturns(1)
    /\ ~IsNone(wk[1].exc)
    /\ Len(AllPut(1)) = 4
    /\ AllPut(1)[1].type = "early_state"
    /\ IsStderr(AllPut(1)[3])

\* at the poll time of r the installed timeout has been exceeded
DeadlinePassed(r) == gen[r].now - gen[r].time_started > gen[r].timeout

\* r yields Finished(interrupted, "timeout") in this step
InterruptedYielded(r) ==
    /\ ~IsNone(gen'[r].yielded)
    /\ IsTimeoutFinished(Val(gen'[r].yielded))

\* the loop of r was left after the worker's Finished message was taken
EndedByMessage(r) ==
    /\ gen[r].pc \in {"break", "done"}
    /\ IsNone(gen[r].exc)
    /\ gen[r].branch = "message"

\* C27: a message in the queue takes precedence over the timeout.  In a
\* poll iteration that finds the timeout exceeded and the queue non-empty,
\* the generator takes the message: it does not terminate the worker and
\* does not yield Finished(interrupted); when the message is the worker's
\* Finished, the run ends with it, the deadline notwithstanding
C27_QueueBeforeTimeout ==
    /\ [][\A r \in Runs :
            /\ At(r, "poll") /\ DeadlinePassed(r) /\ Queue(r) # <<>>
                    /\ gen'[r] # gen[r] =>
                /\ gen'[r].pc \in {"get", "except"}
                /\ proc'[r] = proc[r]
                /\ ~InterruptedYielded(r)
            /\ gen[r].pc \in MessageBranch /\ DeadlinePassed(r)
                    /\ gen'[r] # gen[r] =>
                /\ gen'[r].pc \notin EmptyBranch
                /\ proc'[r] = proc[r]
                /\ ~InterruptedYielded(r)]_vars
    /\ [](\A r \in Runs :
            EndedByMessage(r) =>
                /\ proc[r] # "terminated"
                /\ Last(Stream(r)) = Val(gen[r].message)
                /\ Last(Stream(r)).by = "worker"
                /\ IsFinished(Last(Stream(r))))

\* the worker's Finished was taken and forwarded in an iteration whose poll
\* time was past the deadline, and the run has ended with it
C27_Witness ==
    /\ EndedByMessage(1)
    /\ gen[1].pc = "done"
    /\ gen[1].timeout < Inf
    /\ DeadlinePassed(1)
    /\ IsFinished(Last(out[1])) /\ Last(out[1]).by = "worker"

\* ------------------------------------------------------------ one runner, two runnables
\* two calls of run() on one runner object, for every pair of runnables,
\* advanced in any interleaving; each worker is followed until it has split
\* the uri of the runnable it was given
WorldRunnables ==
    [uris |-> Uris, coverage_run |-> {FALSE}, timeouts |-> {None},
     statuses |-> {"PASS"}, whiteboards |-> {""}, variants |-> {None}]

InitRunnables == InitWith(Runs, 0, WorldRunnables)

NextRunnables ==
    \/ \E r \in Runs : Begin(r) \/ Spawn(r)
    \/ \E r \in Runs : WParse(r)
    \/ \E r \in Runs : CallerDiscard(r)

RunnablesSpec == InitRunnables /\ [][NextRunnables]_vars

\* the worker process of r has been spawned
Spawned(r) == wk[r].pc \notin {"none", "gone"}

\* C28: when two run() generators are created on one runner object with
\* different runnables and advanced in any interleaving, the worker spawned
\* by each generator executes the runnable that generator was created for
C28_OwnRunnable ==
    \A r \in Runs :
        Spawned(r) /\ runnable[1] # runnable[2] =>
            wk[r].runnable = Some(runnable[r])

\* the step in which the worker process of r is terminated
Terminated(r) == proc[r] # "terminated" /\ proc'[r] = "terminated"

\* run() of r has left its loop through its except clause
EndedByFault(r) ==
    /\ gen[r].pc \in {"except", "except2", "end", "done"}
    /\ ~IsNone(gen[r].exc)

\* C29: the orchestrator terminates the worker process only on the timeout
\* path (empty queue, timeout exceeded, Finished(interrupted) yielded in the
\* same step).  When the run ends through the except clause or by
\* forwarding the worker's Finished, the process has not been terminated,
\* and the generator returns without waiting for it, whatever the state of
\* the process
C29_TerminateOnlyOnTimeout ==
    /\ [][\A r \in Runs :
            Terminated(r) =>
                /\ At(r, "terminate")
                /\ gen[r].branch = "empty"
                /\ DeadlinePassed(r)
                /\ InterruptedYielded(r)]_vars
    /\ [](\A r \in Runs :
            /\ EndedByFault(r) \/ EndedByMessage(r) => proc[r] # "terminated"
            /\ ~gen[r].suspended /\ gen[r].pc \in {"break", "end"} => ENABLED Return(r))

\* a run that ended through the except clause after a successful spawn: the
\* generator has returned and the worker process is still running the test
C29_Witness ==
    /\ EndedByFault(1)
    /\ gen[1].pc = "done"
    /\ IsFinished(Last(out[1])) /\ Last(out[1]).by = "run"
    /\ proc[1] = "alive"
    /\ wk[1].pc = "run"

\* the statements of the loop body before the branch
LoopHead == {"sleep", "poll"}

\* a step of generator r, or of its caller resuming it
StepOf(r) == gen'[r] # gen[r]

\* C30: a poll iteration that takes a message from the queue leaves
\* next_status_time and time_started unchanged and changes the timeout only
\* if the message is an EarlyState; a poll iteration that finds the queue
\* empty leaves the timeout unchanged and does not touch the contents of
\* the queue
C30_FrameEffects ==
    [][\A r \in Runs :
        /\ StepOf(r) /\ gen[r].pc \in LoopHead \cup MessageBranch =>
            /\ gen'[r].next_status_time = gen[r].next_status_time
            /\ gen'[r].time_started = gen[r].time_started
            /\ gen'[r].timeout # gen[r].timeout =>
                /\ gen[r].pc = "get"
                /\ Queue(r) # <<>>
                /\ Head(Queue(r)).type = "early_state"
        /\ StepOf(r) /\ gen[r].pc \in LoopHead \cup EmptyBranch =>
            /\ gen'[r].timeout = gen[r].timeout
            /\ gen'[r].time_started = gen[r].time_started
            /\ chan' = chan
            /\ gen'[r].message = gen[r].message]_vars

\* an EarlyState has just been taken in an iteration that follows a
\* heartbeat: the timeout is installed, the heartbeat deadline is the one
\* the heartbeat had set
C30_Witness ==
    /\ gen[1].pc = "after"
    /\ Val(gen[1].message).type = "early_state"
    /\ gen[1].timeout < Inf
    /\ gen[1].next_status_time = Some(gen[1].time_started + CHECK_INTERVAL + STATUS_INTERVAL)
    /\ gen[1].now > gen[1].time_started + CHECK_INTERVAL
====
